---- MODULE Spec2Model ----
(***************************************************************************)
(* Model of src/app.py, the Streamlit script "RVH Risk Predictor".         *)
(*                                                                         *)
(* Streamlit runs the whole script top to bottom once per user             *)
(* interaction (a "render pass").  One action of this model is one whole   *)
(* render pass: load_model(), user_input_features(), and the predict       *)
(* button handler.                                                         *)
(*                                                                         *)
(* Numbers.  Widget values are floats with one decimal; they are kept as   *)
(* integers in tenths (HbA1c 7.5 is 75).  The positive-class probability   *)
(* is the float32 an XGBoost classifier returns, kept exactly as an        *)
(* integer number of 2^-26 (0.5 is 2^25); risk_percent is kept exactly as  *)
(* an integer number of 2^-24 (50.0 % is 50 * 2^24), with the rounding the *)
(* binary multiplication does.                                             *)
(***************************************************************************)
EXTENDS Integers, Sequences, FiniteSets

VARIABLES
    widgets,      \* session widget state of the six sidebar controls
    fileOK,       \* environment: joblib.load of the artifact would succeed now
    wide,         \* environment: the installed NumPy makes float32 * int a float64
    model_cache,  \* st.cache_resource entry of load_model: "unset", "None", "handle"
    fileReads,    \* number of joblib.load calls made by the process so far
    trigger,      \* what caused the last render pass: "none", "session", "widget", "button"
    model,        \* module-level `model` of the last pass: "None" or "handle"
    input_df,     \* module-level `input_df` of the last pass
    out,          \* messages the last pass emitted, by script section
    predictCalls, \* predict_proba invocations made by the last pass
    predictArg,   \* the frame the last pass handed to predict_proba
    outcome,      \* what predict_proba did in the last pass
    risk_percent, \* <<value>> when the last pass assigned risk_percent, else <<>>
    cards,        \* result cards rendered by the last pass
    progress      \* progress-bar values rendered by the last pass

vars == <<widgets, fileOK, wide, model_cache, fileReads, trigger, model,
          input_df, out, predictCalls, predictArg, outcome, risk_percent,
          cards, progress>>

passVars == <<trigger, model, input_df, out, predictCalls, predictArg,
              outcome, risk_percent, cards, progress>>

----------------------------------------------------------------------------
(* Bounds of the model *)

\* how many steps around each default / threshold the sampled inputs reach
Spread == 1

----------------------------------------------------------------------------
(* Widget declarations, in tenths *)

HbA1cMin == 30
HbA1cMax == 200
HbA1cDefault == 75
HbA1cStep == 1

BmiMin == 100
BmiMax == 600
BmiDefault == 245

HaemoglobinMin == 500
HaemoglobinMax == 2000
HaemoglobinDefault == 1350

Choices == {"No", "Yes"}

\* value of the selectbox option at `index` in ("No", "Yes")
Option(index) == IF index = 0 THEN "No" ELSE "Yes"

DefaultWidgets ==
    [hba1c |-> HbA1cDefault, bmi |-> BmiDefault, haemoglobin |-> HaemoglobinDefault,
     active_neo_input |-> Option(0), htn_input |-> Option(1), cvd_input |-> Option(0)]

\* 8.0 in tenths: the HbA1c advisory threshold
HbA1cThreshold == 80

\* the sampled values reach Spread steps to either side of `centre`
Around(centre, step) == {centre + k * step : k \in (0 - Spread)..Spread}

Clamp(S, lo, hi) == {v \in S : lo <= v /\ v <= hi}

HbA1cValues ==
    Clamp({HbA1cMin, HbA1cDefault, HbA1cMax, 90}
            \cup Around(HbA1cThreshold, HbA1cStep), HbA1cMin, HbA1cMax)

\* BMI and Haemoglobin take part in no comparison of the script: their
\* bounds and default are sampled
BmiValues == {BmiMin, BmiDefault, BmiMax}

HaemoglobinValues == {HaemoglobinMin, HaemoglobinDefault, HaemoglobinMax}

----------------------------------------------------------------------------
(* 3. load_model, under @st.cache_resource *)

\* body of load_model: joblib.load succeeds or the except branch reports and
\* returns None
load_model(ok) ==
    IF ok THEN [value |-> "handle", msgs |-> <<>>]
          ELSE [value |-> "None", msgs |-> <<"load_error">>]

\* messages replayed by the cache for a stored result
CachedMsgs(value) == IF value = "None" THEN <<"load_error">> ELSE <<>>

\* a mutant of CachedLoadModel: the body runs on every call
UncachedLoadModel(cache, ok) ==
    [value |-> load_model(ok).value, msgs |-> load_model(ok).msgs,
     cache |-> load_model(ok).value, reads |-> 1]

\* the decorated load_model(): the body runs only on a cache miss, its result
\* (None included) is stored; a hit returns the stored result
CachedLoadModel(cache, ok) ==
    IF cache = "unset"
    THEN [value |-> load_model(ok).value, msgs |-> load_model(ok).msgs,
          cache |-> load_model(ok).value, reads |-> 1]
    ELSE [value |-> cache, msgs |-> CachedMsgs(cache), cache |-> cache, reads |-> 0]

----------------------------------------------------------------------------
(* 4. user_input_features *)

\* keys of the dict `data`, in insertion order
DataKeys ==
    <<"Haemoglobin", "Active.neovascularisation",
      "History.of.cardiovascular.disease", "HbA1c", "BMI", "Hypertension">>

expected_order ==
    <<"Haemoglobin", "Active.neovascularisation",
      "History.of.cardiovascular.disease", "HbA1c", "BMI", "Hypertension">>

\* `1 if x == "Yes" else 0`
YesNo(choice) == IF choice = "Yes" THEN 1 ELSE 0

\* a mutant of Data: Hypertension and cardiovascular history exchanged
DataSwapped(w, keys) ==
    <<  <<keys[1], w.haemoglobin>>,
        <<keys[2], YesNo(w.active_neo_input)>>,
        <<keys[3], YesNo(w.htn_input)>>,
        <<keys[4], w.hba1c>>,
        <<keys[5], w.bmi>>,
        <<keys[6], YesNo(w.cvd_input)>> >>

\* the dict `data` as its items in insertion order
Data(w, keys) ==
    <<  <<keys[1], w.haemoglobin>>,
        <<keys[2], YesNo(w.active_neo_input)>>,
        <<keys[3], YesNo(w.cvd_input)>>,
        <<keys[4], w.hba1c>>,
        <<keys[5], w.bmi>>,
        <<keys[6], YesNo(w.htn_input)>> >>

\* pd.DataFrame(data, index=[0]): one row, columns in the dict's order
DataFrame(data) ==
    [cols |-> [i \in 1..Len(data) |-> data[i][1]],
     row  |-> [i \in 1..Len(data) |-> data[i][2]]]

EmptyFrame == [cols |-> <<>>, row |-> <<>>]

HasColumn(df, name) == \E i \in 1..Len(df.cols) : df.cols[i] = name

\* df[name][0]
Cell(df, name) == df.row[CHOOSE i \in 1..Len(df.cols) : df.cols[i] = name]

\* df[order] raises KeyError when a name of `order` is no column
SelectRaises(df, order) == \E i \in 1..Len(order) : ~HasColumn(df, order[i])

\* df[order]: the columns named by `order`, in that order
Select(df, order) ==
    [cols |-> order, row |-> [i \in 1..Len(order) |-> Cell(df, order[i])]]

\* the whole function: the frame it returns and the messages it emits
user_input_features(w, keys) ==
    LET features == DataFrame(Data(w, keys))
    IN  IF SelectRaises(features, expected_order)
        THEN [df |-> features, msgs |-> <<"internal_error">>]
        ELSE [df |-> Select(features, expected_order), msgs |-> <<>>]

----------------------------------------------------------------------------
(* 6. the predict button handler *)

\* the literal n (a percentage) in units of 2^-24
Pct(n) == n * (2^24)

\* x / d rounded to an integer, half to even, for x >= 0
RoundHalfEven(x, d) ==
    LET q == x \div d
        r == x % d
    IN  IF 2 * r < d THEN q
        ELSE IF 2 * r > d THEN q + 1
        ELSE IF q % 2 = 0 THEN q ELSE q + 1

\* the power of two that leaves x >= 0 at most 24 significant bits
Ulp32(x) == 2^(CHOOSE k \in 0..7 :
                /\ x \div (2^k) < 2^24
                /\ (k = 0 \/ x \div (2^(k - 1)) >= 2^24))

\* x >= 0 rounded to the nearest float32 (24-bit significand, ties to even)
RoundF32(x) == RoundHalfEven(x, Ulp32(x)) * Ulp32(x)

\* What model.predict_proba(input_df)[0][1] can do: raise, or return the
\* positive-class probability, a float32 (in units of 2^-26).  The handle is
\* an opaque unpickled object; line 244 itself provides for an estimate
\* whose percentage exceeds 100, so the sampled estimates reach past 1.0.
\* Sampled: 0, 0.5 and 1.0 with their float32 neighbours, float32(0.29),
\* float32(0.53), float32(1.001), and two estimates whose float32 percentage
\* is a rounding tie of the one-decimal format (50.25 and 50.75).
ProbaValues ==
    {n \in {0, 2^25, 2^26, 19461570, 35567696, 67175976, 33722204, 34057748}
            \cup {2^25 - 2 * k : k \in 1..Spread}
            \cup {2^25 + 4 * k : k \in 1..Spread}
            \cup {2^26 + 8 * k : k \in 1..Spread} :
        RoundF32(n) = n}

Raises == [raised |-> TRUE, proba |-> 0]

NoOutcome == [raised |-> FALSE, proba |-> 0]

Outcomes == {Raises} \cup {[raised |-> FALSE, proba |-> p] : p \in ProbaValues}

\* a mutant of ButtonPressed: the handler runs on every pass
ButtonAlways(trig) == TRUE

\* `if st.button(...)`: True only in the pass the click caused
ButtonPressed(trig) == trig = "button"

\* a mutant of Truthy: the handle is never checked
TruthyAlways(m) == TRUE

\* `if model:`
Truthy(m) == m # "None"

\* `prediction_proba * 100`, a float32 times an int.  NumPy 2 keeps the
\* product a float32 and rounds it; NumPy 1.x promotes it to float64 (wd),
\* which holds the exact product (at most 31 significant bits)
RiskPercent(proba, wd) ==
    IF wd THEN proba * 25 ELSE RoundF32(proba * 25)

\* a mutant of IsHighRisk: the threshold itself counts as high
IsHighRiskInclusive(rp) == rp >= Pct(50)

\* `risk_percent > 50`
IsHighRisk(rp) == rp > Pct(50)

\* `{risk_percent:.1f}`: the exact binary value rounded to one decimal, half
\* to even, in tenths (rp >= 0)
Format1f(rp) ==
    (rp \div (2^24)) * 10 + RoundHalfEven((rp % (2^24)) * 10, 2^24)

ResultCard(rp) ==
    [category |-> IF IsHighRisk(rp) THEN "High Risk" ELSE "Low Risk",
     pct |-> Format1f(rp)]

Min(a, b) == IF a <= b THEN a ELSE b

\* int(x): truncation toward zero of a value in units of 2^-24
IntTrunc(x) == IF x >= 0 THEN x \div (2^24) ELSE 0 - ((0 - x) \div (2^24))

\* `int(min(risk_percent, 100))`
ProgressValue(rp) == IntTrunc(Min(rp, Pct(100)))

\* st.progress(v) raises for an integer outside 0..100
ProgressRaises(v) == v < 0 \/ v > 100

\* `input_df['Active.neovascularisation'][0] == 1`
NeoFlag(df) == Cell(df, "Active.neovascularisation") = 1

\* a mutant of HbA1cElevated: 8.0 itself is flagged
HbA1cElevatedInclusive(df) == Cell(df, "HbA1c") >= HbA1cThreshold

\* `input_df['HbA1c'][0] > 8.0`
HbA1cElevated(df) == Cell(df, "HbA1c") > HbA1cThreshold

\* a mutant of Reassure: the message follows the Low Risk branch
ReassureInclusive(rp) == rp <= Pct(50)

\* `if risk_percent < 50`
Reassure(rp) == rp < Pct(50)

\* "Contributing Factors": lines 246-253, the messages emitted and whether a
\* column lookup raised KeyError on the way
Factors(df, rp) ==
    IF ~HasColumn(df, "Active.neovascularisation")
    THEN [msgs |-> <<>>, raised |-> TRUE]
    ELSE LET neo == IF NeoFlag(df) THEN <<"neo_warning">> ELSE <<>>
         IN  IF ~HasColumn(df, "HbA1c")
             THEN [msgs |-> neo, raised |-> TRUE]
             ELSE [msgs |-> neo
                        \o (IF HbA1cElevated(df) THEN <<"hba1c_warning">> ELSE <<>>)
                        \o (IF Reassure(rp) THEN <<"reassurance">> ELSE <<>>),
                   raised |-> FALSE]

\* the body of `try:`, lines 208-253: what is rendered before it ends or raises
TryBody(df, oc, wd) ==
    IF oc.raised
    THEN [msgs |-> <<>>, risk |-> <<>>, cards |-> <<>>, progress |-> <<>>,
          raised |-> TRUE]
    ELSE LET rp  == RiskPercent(oc.proba, wd)
             bar == ProgressValue(rp)
             f   == Factors(df, rp)
         IN  IF ProgressRaises(bar)
             THEN [msgs |-> <<"result_card">>, risk |-> <<rp>>,
                   cards |-> <<ResultCard(rp)>>, progress |-> <<>>,
                   raised |-> TRUE]
             ELSE [msgs |-> <<"result_card", "progress">> \o f.msgs,
                   risk |-> <<rp>>, cards |-> <<ResultCard(rp)>>,
                   progress |-> <<bar>>, raised |-> f.raised]

\* a mutant of ExceptHandler: the failure is swallowed
ExceptHandlerSilent(raised) == <<>>

\* `except Exception as e:` lines 255-257
ExceptHandler(raised) ==
    IF raised THEN <<"predict_error", "check_hint">> ELSE <<>>

Idle ==
    [msgs |-> <<>>, risk |-> <<>>, cards |-> <<>>, progress |-> <<>>,
     calls |-> 0, arg |-> EmptyFrame, outcome |-> NoOutcome]

\* lines 205-260
Predictor(trig, m, df, oc, wd) ==
    IF ~ButtonPressed(trig) THEN Idle
    ELSE IF ~Truthy(m) THEN [Idle EXCEPT !.msgs = <<"model_not_loaded">>]
    ELSE LET t == TryBody(df, oc, wd)
         IN  [msgs |-> t.msgs \o ExceptHandler(t.raised), risk |-> t.risk,
              cards |-> t.cards, progress |-> t.progress,
              calls |-> 1, arg |-> df, outcome |-> oc]

----------------------------------------------------------------------------
(* The script: one render pass *)

\* ocs: what predict_proba can do in this pass, should it be called
RenderPass(trig, w, ocs) ==
    \E lm \in {CachedLoadModel(model_cache, fileOK)} :
    \E uif \in {user_input_features(w, DataKeys)} :
    \E oc \in ocs :
    \E pr \in {Predictor(trig, lm.value, uif.df, oc, wide)} :
        /\ model_cache' = lm.cache
        /\ fileReads' = fileReads + lm.reads
        /\ model' = lm.value
        /\ input_df' = uif.df
        /\ out' = [loader |-> lm.msgs, collector |-> uif.msgs, predictor |-> pr.msgs]
        /\ predictCalls' = pr.calls
        /\ predictArg' = pr.arg
        /\ outcome' = pr.outcome
        /\ risk_percent' = pr.risk
        /\ cards' = pr.cards
        /\ progress' = pr.progress
        /\ trigger' = trig
        /\ UNCHANGED <<fileOK, wide>>

Init ==
    /\ widgets = DefaultWidgets
    /\ fileOK \in BOOLEAN
    /\ wide \in BOOLEAN
    /\ model_cache = "unset"
    /\ fileReads = 0
    /\ trigger = "none"
    /\ model = "None"
    /\ input_df = EmptyFrame
    /\ out = [loader |-> <<>>, collector |-> <<>>, predictor |-> <<>>]
    /\ predictCalls = 0
    /\ predictArg = EmptyFrame
    /\ outcome = NoOutcome
    /\ risk_percent = <<>>
    /\ cards = <<>>
    /\ progress = <<>>

\* a browser opens (or reloads) the page: a new session with default widgets
NewSession ==
    /\ widgets' = DefaultWidgets
    /\ RenderPass("session", DefaultWidgets, {NoOutcome})

\* the user edits one sidebar control
WidgetChange ==
    /\ trigger # "none"
    /\ \E w \in {[widgets EXCEPT !.hba1c = v] : v \in HbA1cValues}
            \cup {[widgets EXCEPT !.bmi = v] : v \in BmiValues}
            \cup {[widgets EXCEPT !.haemoglobin = v] : v \in HaemoglobinValues}
            \cup {[widgets EXCEPT !.active_neo_input = c] : c \in Choices}
            \cup {[widgets EXCEPT !.htn_input = c] : c \in Choices}
            \cup {[widgets EXCEPT !.cvd_input = c] : c \in Choices} :
        /\ w # widgets
        /\ widgets' = w
        /\ RenderPass("widget", w, {NoOutcome})

\* the user clicks "Predict Risk"
ButtonPress ==
    /\ trigger # "none"
    /\ widgets' = widgets
    /\ RenderPass("button", widgets, Outcomes)

\* environment: the artifact file appears, disappears or is repaired
ArtifactChange ==
    /\ fileOK' = ~fileOK
    /\ UNCHANGED <<widgets, wide, model_cache, fileReads>>
    /\ UNCHANGED passVars

Next == NewSession \/ WidgetChange \/ ButtonPress \/ ArtifactChange

Spec == Init /\ [][Next]_vars

----------------------------------------------------------------------------
(* Properties *)

\* the Patient Feature Record of section 3 of the specification for a
\* widget state, field by field
FeatureRow(w) ==
    <<w.haemoglobin,
      IF w.active_neo_input = "Yes" THEN 1 ELSE 0,
      IF w.cvd_input = "Yes" THEN 1 ELSE 0,
      w.hba1c,
      w.bmi,
      IF w.htn_input = "Yes" THEN 1 ELSE 0>>

\* the predict handler of the last pass emitted message m
Shown(m) == \E i \in 1..Len(out.predictor) : out.predictor[i] = m

\* the last pass called predict_proba and it returned a probability
Estimated == predictCalls = 1 /\ ~outcome.raised

\* the last pass called predict_proba and it raised
EstimationFailed == predictCalls = 1 /\ outcome.raised

\* C1: for every widget state within the declared bounds the Collector
\* returns one row of exactly 6 fields, in the order Haemoglobin,
\* Active.neovascularisation, History.of.cardiovascular.disease, HbA1c, BMI,
\* Hypertension, each field holding its own widget's value with Yes/No as
\* 1/0; the default widgets give [135.0, 0, 0, 7.5, 24.5, 1].
C1_CollectorRecord ==
    trigger # "none" =>
        /\ widgets.hba1c \in HbA1cMin..HbA1cMax
        /\ widgets.bmi \in BmiMin..BmiMax
        /\ widgets.haemoglobin \in HaemoglobinMin..HaemoglobinMax
        /\ input_df.cols =
             <<"Haemoglobin", "Active.neovascularisation",
               "History.of.cardiovascular.disease", "HbA1c", "BMI", "Hypertension">>
        /\ Len(input_df.row) = 6
        /\ input_df.row = FeatureRow(widgets)
        /\ out.collector = <<>>
        /\ (widgets = DefaultWidgets => input_df.row = <<1350, 0, 0, 75, 245, 1>>)

C1_Witness ==
    /\ trigger # "none"
    /\ widgets.haemoglobin = 1350 /\ widgets.hba1c = 75 /\ widgets.bmi = 245
    /\ widgets.active_neo_input = "No" /\ widgets.htn_input = "Yes"
    /\ widgets.cvd_input = "No"
    /\ input_df.row = <<1350, 0, 0, 75, 245, 1>>

\* C2: when load_model returned None, a press of the predict button emits
\* exactly the "Model not loaded" error: predict_proba is not invoked and no
\* percentage, category, indicator, warning or reassurance is output.
C2_ModelNotLoaded ==
    (trigger = "button" /\ model = "None") =>
        /\ out.predictor = <<"model_not_loaded">>
        /\ predictCalls = 0
        /\ risk_percent = <<>>
        /\ cards = <<>>
        /\ progress = <<>>

C2_Witness ==
    /\ trigger = "button"
    /\ model = "None"
    /\ out.predictor = <<"model_not_loaded">>

\* C3: after a successful estimation exactly one risk category is shown,
\* "High Risk" iff risk_percent > 50.0 and "Low Risk" otherwise; exactly
\* 50.0 % is "Low Risk".
C3_RiskCategory ==
    Estimated =>
        /\ Len(cards) = 1
        /\ Len(risk_percent) = 1
        /\ (cards[1].category = "High Risk" <=> risk_percent[1] > Pct(50))
        /\ (cards[1].category = "Low Risk" <=> risk_percent[1] <= Pct(50))
        /\ (risk_percent[1] = Pct(50) => cards[1].category = "Low Risk")

C3_Witness ==
    /\ Estimated
    /\ risk_percent = <<Pct(50)>>
    /\ Len(cards) = 1
    /\ cards[1].category = "Low Risk"

\* C4: after a successful estimation the neovascularisation warning is shown
\* iff Active.neovascularisation = 1 and the HbA1c warning iff HbA1c > 8.0
\* (8.0 itself gives none), each whatever the other and the risk category.
C4_AdvisoryWarnings ==
    Estimated =>
        /\ (Shown("neo_warning") <=> widgets.active_neo_input = "Yes")
        /\ (Shown("hba1c_warning") <=> widgets.hba1c > 80)
        /\ (widgets.hba1c = 80 => ~Shown("hba1c_warning"))
        /\ ((widgets.active_neo_input = "Yes" /\ widgets.hba1c = 90) =>
                (Shown("neo_warning") /\ Shown("hba1c_warning")))

C4_Witness ==
    /\ Estimated
    /\ widgets.active_neo_input = "Yes"
    /\ widgets.hba1c = 90
    /\ Len(cards) = 1
    /\ cards[1].category = "Low Risk"
    /\ Shown("neo_warning")
    /\ Shown("hba1c_warning")

\* C5: in every prediction that renders a result the displayed risk_percent
\* satisfies 0.0 <= risk_percent <= 100.0 and the displayed confidence
\* indicator satisfies 0 <= indicator <= 100, even if the raw percentage
\* (probability times 100) exceeds 100.
C5_PercentInRange ==
    cards # <<>> =>
        /\ 0 <= risk_percent[1] /\ risk_percent[1] <= Pct(100)
        /\ 0 <= cards[1].pct /\ cards[1].pct <= 1000
        /\ \A i \in 1..Len(progress) : 0 <= progress[i] /\ progress[i] <= 100

\* C6: a failing predict_proba call is caught and shown as an error, no
\* percentage or category is output for that attempt, exactly one call was
\* made (no retry), the widgets and the cached handle are as before the
\* pass, and a later button press makes a fresh attempt.
C6_FailureIsContained ==
    /\ [](EstimationFailed =>
            /\ out.predictor = <<"predict_error", "check_hint">>
            /\ cards = <<>>
            /\ risk_percent = <<>>
            /\ progress = <<>>
            /\ model = "handle"
            /\ model_cache = "handle")
    /\ [][(predictCalls' = 1 /\ outcome'.raised) =>
            /\ widgets' = widgets
            /\ (model_cache # "unset" => model_cache' = model_cache)]_vars
    /\ [][(EstimationFailed /\ ButtonPress) =>
            /\ predictCalls' = 1
            /\ predictArg'.row = FeatureRow(widgets')
            /\ (outcome'.raised \/ Len(cards') = 1)]_vars

C6_Witness ==
    /\ EstimationFailed
    /\ trigger = "button"
    /\ out.predictor = <<"predict_error", "check_hint">>

\* C7: the cached result of load_model is written once: the artifact is read
\* at most once, a stored result (handle or None) never changes and is what
\* every later pass gets, and after a load failure every press of the button
\* is rejected, also when the file has become available.
C7_LoadOnce ==
    /\ [](fileReads <= 1)
    /\ [](trigger # "none" => (model_cache # "unset" /\ model = model_cache))
    /\ [][model_cache # "unset" =>
            (model_cache' = model_cache /\ fileReads' = fileReads)]_vars
    /\ []((trigger = "button" /\ model_cache = "None") =>
            (out.predictor = <<"model_not_loaded">> /\ predictCalls = 0))

C7_Witness ==
    /\ model_cache = "None"
    /\ fileOK
    /\ fileReads = 1
    /\ trigger = "button"
    /\ out.predictor = <<"model_not_loaded">>

\* C8: predict_proba is invoked only in a pass the predict button caused,
\* never by a widget change alone, at most once per press, on the record the
\* Collector built from the widget state of that same pass.
C8_PredictOnlyOnPress ==
    /\ predictCalls \in {0, 1}
    /\ (trigger \in {"none", "session", "widget"} => predictCalls = 0)
    /\ (predictCalls = 1 =>
            /\ trigger = "button"
            /\ predictArg = input_df
            /\ predictArg.row = FeatureRow(widgets))

C8_Witness ==
    /\ predictCalls = 1
    /\ trigger = "button"
    /\ widgets.hba1c = 90
    /\ widgets.htn_input = "No"
    /\ predictArg.row = <<1350, 0, 0, 90, 245, 0>>

\* C9: after a successful estimation the reassurance message is shown iff
\* risk_percent < 50.0: never together with "High Risk", and at exactly
\* 50.0 % "Low Risk" is shown without it.
C9_Reassurance ==
    Estimated =>
        /\ (Shown("reassurance") <=> risk_percent[1] < Pct(50))
        /\ ~(Shown("reassurance") /\ cards[1].category = "High Risk")
        /\ (risk_percent[1] = Pct(50) =>
                (cards[1].category = "Low Risk" /\ ~Shown("reassurance")))

C9_Witness ==
    /\ Estimated
    /\ risk_percent = <<Pct(50)>>
    /\ cards[1].category = "Low Risk"
    /\ ~Shown("reassurance")

====
